---------------------------- MODULE Spec2Model ----------------------------
(***************************************************************************)
(* A model of assign_matrix.py, the script that turns HotCRP review        *)
(* preferences into a LaTeX matrix.  The script is one sequential pass:    *)
(* print the LaTeX header, load the preference table, load the assignment  *)
(* table, compute the per-reviewer scaling bounds, scale the scores,       *)
(* optionally order papers and reviewers, print the matrix.  Every         *)
(* variable of the script is a variable here, `stage' is the position in   *)
(* the script and `fault' the Python exception that ended the run.         *)
(*                                                                         *)
(* Text (names, titles) is a sequence of one-character strings.  The rows  *)
(* of the CSV files are read one at a time from the set of rows the        *)
(* variable `universe' allows.  The options -b (colour of the header) and  *)
(* -l (page lengths) are left at their defaults.                           *)
(*                                                                         *)
(* Distances are floating-point numbers in the script; here they are       *)
(* compared exactly, as rationals.  The two agree except when two          *)
(* distances are equal as real numbers and are computed along different    *)
(* paths, where rounding decides the script's comparison.                  *)
(***************************************************************************)
EXTENDS Integers, Sequences, FiniteSets, TLC

VARIABLES
    universe,       \* the rows the input files of this run are drawn from
    opt_scale,      \* -s
    opt_order,      \* -o
    stage,          \* position in the script
    fault,          \* "none", or the exception that ended the run
    out,            \* standard output, a sequence of blocks
    nrows,          \* rows read so far from the file being read
    papers,         \* dict papers: sequence of [id, title, n_pages] in insertion order
    pc,             \* dict pc: sequence of [name, num, email] in insertion order
    pc_min,         \* pc[name]['min']
    pc_max,         \* pc[name]['max']
    prefs,          \* prefs[p][name], a function on the pairs <<p, name>> that have an entry
    prefs_type,     \* prefs_type[p][name]
    assigned,       \* the pairs <<p, name>> with assigned[p][name] = 1
    email,          \* dict email: address -> name
    prefs_scaled,   \* prefs_scaled[p][name]
    sorted_papers,  \* the list of groups while merging, then the paper order
    sorted_pc,      \* the reviewer order
    row,            \* index of the next paper row to print
    conflicted,     \* history: pairs for which a row with the conflict flag was read
    merges,         \* history: the pairs of paper sets merged so far
    text,           \* latex_encode: the input text
    encoded,        \* latex_encode(text)
    reencoded       \* latex_encode(latex_encode(text))

vars == <<universe, opt_scale, opt_order, stage, fault, out, nrows, papers, pc,
          pc_min, pc_max, prefs, prefs_type, assigned, email, prefs_scaled,
          sorted_papers, sorted_pc, row, conflicted, merges, text, encoded,
          reencoded>>

tables == <<papers, pc, prefs, prefs_type, email, conflicted>>
scaling == <<pc_min, pc_max, prefs_scaled>>
ordering == <<sorted_papers, sorted_pc, merges>>
encoding == <<text, encoded, reencoded>>

-----------------------------------------------------------------------------
(* Bounds of the model *)

\* rows of the preference table in a run without ordering
MaxRows == 2
\* rows of the preference table in a run with ordering
MaxOrderRows == 3
\* rows of the assignment table
MaxAssign == 1
\* length of a text given to latex_encode
MaxLen == 3

-----------------------------------------------------------------------------
(* Constants of the script *)

ConflictScore == -100
FixedMin == -20
FixedMax == 20
DefaultPages == 20
UnknownShade == 50
NoAffinity == -1

-----------------------------------------------------------------------------
(* latex_encode *)

\* the table conv: reserved character -> its LaTeX escape
conv ==
          "&" :> <<"\\", "&">>
       @@ "%" :> <<"\\", "%">>
       @@ "$" :> <<"\\", "$">>
       @@ "#" :> <<"\\", "#">>
       @@ "_" :> <<"\\", "_">>
       @@ "{" :> <<"\\", "{">>
       @@ "}" :> <<"\\", "}">>
       @@ "~" :> <<"\\", "t", "e", "x", "t", "a", "s", "c", "i", "i", "t", "i", "l", "d", "e", "{", "}">>
       @@ "^" :> <<"\\", "^", "{", "}">>
       @@ "\\" :> <<"\\", "t", "e", "x", "t", "b", "a", "c", "k", "s", "l", "a", "s", "h", "{", "}">>
       @@ "<" :> <<"\\", "t", "e", "x", "t", "l", "e", "s", "s", "{", "}">>
       @@ ">" :> <<"\\", "t", "e", "x", "t", "g", "r", "e", "a", "t", "e", "r", "{", "}">>

Reserved == DOMAIN conv

RECURSIVE latex_encode_keep_backslash(_)
\* latex_encode with the key '\\' missing from conv
latex_encode_keep_backslash(t) ==
    IF t = <<>> THEN <<>>
    ELSE (IF Head(t) \in Reserved \ {"\\"} THEN conv[Head(t)] ELSE <<Head(t)>>)
         \o latex_encode_keep_backslash(Tail(t))

RECURSIVE latex_encode(_)
\* regex.sub over the alternation of the keys (all of length one): left to
\* right, every reserved character is replaced by conv of it
latex_encode(t) ==
    IF t = <<>> THEN <<>>
    ELSE (IF Head(t) \in Reserved THEN conv[Head(t)] ELSE <<Head(t)>>)
         \o latex_encode(Tail(t))

-----------------------------------------------------------------------------
(* The inputs *)

PersonA == [first |-> <<"A">>, last |-> <<"X">>, email |-> "a@x"]
PersonB == [first |-> <<"B">>, last |-> <<"_">>, email |-> "b@x"]

TitleOf(p) == IF p = "1" THEN <<"T", "&">> ELSE <<"T", "_", "2">>

\* the columns topic_score, preference ("" is <<>>, a number n is <<n>>) and conflict
Signal(t, p, c) == [topic_score |-> t, preference |-> p, conflict |-> c]

PrefRows(ids, people, signals) ==
    { [paper |-> p, title |-> TitleOf(p), first |-> who.first, last |-> who.last,
       email |-> who.email, topic_score |-> s.topic_score,
       preference |-> s.preference, conflict |-> s.conflict] :
      p \in ids, who \in people, s \in signals }

AssignRows(actions, emails, ids) ==
    { [action |-> a, email |-> e, paper |-> p] : a \in actions, e \in emails, p \in ids }

\* runs over two papers with every kind of score, with and without ordering
MainUniverse ==
    [ pref_rows |-> PrefRows({"1", "2"}, {PersonA, PersonB},
                             { Signal(0, <<>>, ""), Signal(5, <<>>, ""),
                               Signal(0, <<20>>, ""), Signal(0, <<-100>>, ""),
                               Signal(0, <<-150>>, ""), Signal(5, <<20>>, "conflict") }),
      max_rows |-> MaxRows,
      assign_rows |-> AssignRows({"primary", "secondary"}, {"a@x", "z@x"}, {"1", "9"}),
      max_assign |-> MaxAssign,
      order |-> {0, 1} ]

\* runs with ordering over three papers, without assignment file
OrderUniverse ==
    [ pref_rows |-> PrefRows({"1", "2", "3"}, {PersonA, PersonB},
                             { Signal(-20, <<>>, ""), Signal(0, <<>>, ""),
                               Signal(5, <<>>, ""), Signal(0, <<>>, "conflict") }),
      max_rows |-> MaxOrderRows,
      assign_rows |-> {},
      max_assign |-> 0,
      order |-> {1} ]

\* latex_encode alone
NoUniverse ==
    [ pref_rows |-> {}, max_rows |-> 0, assign_rows |-> {}, max_assign |-> 0,
      order |-> {} ]

TextAlphabet == {"a", "&", "\\", "{", "~"}

Texts == UNION { [1..n -> TextAlphabet] : n \in 0..MaxLen }

-----------------------------------------------------------------------------
(* Dictionaries *)

\* d[k] = v on a dict held as a function
Put(d, k, v) == (k :> v) @@ d

Names == { pc[i].name : i \in 1..Len(pc) }
Ids == { papers[i].id : i \in 1..Len(papers) }

\* the keys of a dict held as a sequence, in insertion order
PcNames == [i \in 1..Len(pc) |-> pc[i].name]
PaperIds == [i \in 1..Len(papers) |-> papers[i].id]

-----------------------------------------------------------------------------
(* The start of a run *)

Start(u) ==
    /\ universe = u
    /\ opt_scale \in {0, 1}
    /\ opt_order \in u.order
    /\ stage = "header"
    /\ fault = "none"
    /\ out = <<>>
    /\ nrows = 0
    /\ papers = <<>>
    /\ pc = <<>>
    /\ pc_min = <<>>
    /\ pc_max = <<>>
    /\ prefs = <<>>
    /\ prefs_type = <<>>
    /\ assigned = {}
    /\ email = <<>>
    /\ prefs_scaled = <<>>
    /\ sorted_papers = <<>>
    /\ sorted_pc = <<>>
    /\ row = 1
    /\ conflicted = {}
    /\ merges = <<>>
    /\ text = <<>>
    /\ encoded = <<>>
    /\ reencoded = <<>>

Init == Start(MainUniverse)

InitOrder == Start(OrderUniverse)

Running == fault = "none"

-----------------------------------------------------------------------------
(* Header and loading *)

\* lines 95-164: the header is printed before any file is opened
PrintHeader ==
    /\ Running
    /\ stage = "header"
    /\ out' = Append(out, [kind |-> "header"])
    /\ stage' = "prefs"
    /\ UNCHANGED <<universe, opt_scale, opt_order, fault, nrows, tables, assigned,
                   scaling, ordering, row, encoding>>

\* lines 178-200, the body of the loop over the preference rows
LoadPrefRow ==
    /\ Running
    /\ stage = "prefs"
    /\ nrows < universe.max_rows
    /\ \E line \in universe.pref_rows :
         LET name == line.first \o <<" ">> \o line.last
             key == <<line.paper, name>>
             score0 == line.topic_score
             type0 == "T"
             score1 == IF line.preference # <<>> THEN line.preference[1] ELSE score0
             type1 == IF line.preference # <<>> THEN "P" ELSE type0
             score2 == IF line.conflict = "conflict" THEN ConflictScore ELSE score1
             type2 == IF line.conflict = "conflict" THEN "C" ELSE type1
         IN /\ papers' = IF line.paper \notin Ids
                         THEN Append(papers, [id |-> line.paper, title |-> line.title,
                                              n_pages |-> DefaultPages])
                         ELSE papers
            /\ pc' = IF name \notin Names
                     THEN Append(pc, [name |-> name, num |-> Len(pc) + 1,
                                      email |-> line.email])
                     ELSE pc
            /\ email' = IF name \notin Names THEN Put(email, line.email, name) ELSE email
            /\ prefs_type' = Put(prefs_type, key, type2)
            /\ prefs' = Put(prefs, key, score2)
            /\ conflicted' = IF line.conflict = "conflict"
                             THEN conflicted \cup {key} ELSE conflicted
    /\ nrows' = nrows + 1
    /\ UNCHANGED <<universe, opt_scale, opt_order, stage, fault, out, assigned,
                   scaling, ordering, row, encoding>>

\* the end of the preference file
EndPrefs ==
    /\ Running
    /\ stage = "prefs"
    /\ stage' = "assign"
    /\ nrows' = 0
    /\ UNCHANGED <<universe, opt_scale, opt_order, fault, out, tables, assigned,
                   scaling, ordering, row, encoding>>

\* lines 214-216, the body of the loop over the assignment rows.  The
\* subscript assigned[line['paper']] is evaluated first and raises KeyError
\* on an unknown paper, then email[line['email']] on an unknown address.
ProcessAssignRow ==
    /\ Running
    /\ stage = "assign"
    /\ nrows < universe.max_assign
    /\ \E line \in universe.assign_rows :
         IF line.action = "primary"
         THEN IF line.paper \notin Ids
              THEN /\ fault' = "KeyError(paper)"
                   /\ assigned' = assigned
              ELSE IF line.email \notin DOMAIN email
              THEN /\ fault' = "KeyError(email)"
                   /\ assigned' = assigned
              ELSE /\ assigned' = assigned \cup {<<line.paper, email[line.email]>>}
                   /\ fault' = fault
         ELSE UNCHANGED <<assigned, fault>>
    /\ nrows' = nrows + 1
    /\ UNCHANGED <<universe, opt_scale, opt_order, stage, out, tables, scaling,
                   ordering, row, encoding>>

\* the end of the assignment file, or no assignment file
EndAssign ==
    /\ Running
    /\ stage = "assign"
    /\ stage' = "minmax"
    /\ nrows' = 0
    /\ UNCHANGED <<universe, opt_scale, opt_order, fault, out, tables, assigned,
                   scaling, ordering, row, encoding>>

-----------------------------------------------------------------------------
(* Scaling *)

RECURSIVE minmax_loop(_, _, _, _)
\* lines 223-230 for one reviewer: the loop over the papers, from min = max = 0
minmax_loop(name, ps, mn, mx) ==
    IF ps = <<>> THEN [min |-> mn, max |-> mx]
    ELSE LET key == <<Head(ps), name>>
             score == prefs[key]
         IN IF key \in DOMAIN prefs /\ score > ConflictScore
            THEN minmax_loop(name, Tail(ps),
                             IF score < mn THEN score ELSE mn,
                             IF score > mx THEN score ELSE mx)
            ELSE minmax_loop(name, Tail(ps), mn, mx)

\* lines 219-236
ComputeMinMax ==
    /\ Running
    /\ stage = "minmax"
    /\ IF opt_scale = 1
       THEN /\ pc_min' = [name \in Names |-> minmax_loop(name, PaperIds, 0, 0).min]
            /\ pc_max' = [name \in Names |-> minmax_loop(name, PaperIds, 0, 0).max]
       ELSE /\ pc_min' = [name \in Names |-> FixedMin]
            /\ pc_max' = [name \in Names |-> FixedMax]
    /\ stage' = "scale"
    /\ UNCHANGED <<universe, opt_scale, opt_order, fault, out, nrows, tables, assigned,
                   prefs_scaled, ordering, row, encoding>>

\* int(a/b) for b > 0: Python's int() rounds towards zero
TruncDiv(a, b) == IF a >= 0 THEN a \div b ELSE -((-a) \div b)

\* lines 243-247, given max > min
scale(raw, mn, mx) ==
    LET v == TruncDiv(100 * (raw - mn), mx - mn)
    IN IF v > 100 THEN 100 ELSE IF v < 0 THEN 0 ELSE v

\* the pairs (p, name) in the order of the loops of lines 239-241
ScalePairs ==
    [k \in 1..(Len(papers) * Len(pc)) |->
        <<PaperIds[((k - 1) \div Len(pc)) + 1], PcNames[((k - 1) % Len(pc)) + 1]>>]

RECURSIVE scale_loop(_, _)
\* lines 239-247: the entries scaled so far, until a division by zero
scale_loop(pairs, acc) ==
    IF pairs = <<>> THEN [scaled |-> acc, fault |-> "none"]
    ELSE LET key == Head(pairs)
             name == key[2]
         IN IF key \in DOMAIN prefs /\ prefs[key] > ConflictScore
            THEN IF pc_max[name] - pc_min[name] = 0
                 THEN [scaled |-> acc, fault |-> "ZeroDivisionError"]
                 ELSE scale_loop(Tail(pairs),
                                 Put(acc, key, scale(prefs[key], pc_min[name], pc_max[name])))
            ELSE scale_loop(Tail(pairs), acc)

\* lines 238-247
ScalePrefs ==
    /\ Running
    /\ stage = "scale"
    /\ LET r == scale_loop(ScalePairs, <<>>)
       IN /\ prefs_scaled' = r.scaled
          /\ fault' = r.fault
          /\ stage' = IF r.fault = "none" THEN "order" ELSE stage
    /\ UNCHANGED <<universe, opt_scale, opt_order, out, nrows, tables, assigned,
                   pc_min, pc_max, ordering, row, encoding>>

-----------------------------------------------------------------------------
(* Ordering the papers *)

RECURSIVE paper_dist_loop(_, _, _, _, _)
\* lines 254-259: s, the sum of squares, and t, the number of shared reviewers
paper_dist_loop(p1, p2, names, s, t) ==
    IF names = <<>> THEN <<s, t>>
    ELSE LET name == Head(names)
         IN IF <<p1, name>> \in DOMAIN prefs_scaled /\ <<p2, name>> \in DOMAIN prefs_scaled
            THEN LET d == prefs_scaled[<<p1, name>>] - prefs_scaled[<<p2, name>>]
                 IN paper_dist_loop(p1, p2, Tail(names), s + d * d, t + 1)
            ELSE paper_dist_loop(p1, p2, Tail(names), s, t)

\* lines 253-260: <<s, t>> stands for sqrt(s)/sqrt(t), which divides by zero
\* when t = 0
paper_dist(p1, p2) == paper_dist_loop(p1, p2, PcNames, 0, 0)

\* lines 262-269: the factors of the product p, in the order of the loops; the
\* result p**(1/t) is the geometric mean of the factors
papers_dist(l1, l2) ==
    [k \in 1..(Len(l1) * Len(l2)) |->
        paper_dist(l1[((k - 1) \div Len(l2)) + 1], l2[((k - 1) % Len(l2)) + 1])]

\* a call of papers_dist that divides by zero
dist_faults(l1, l2) == \E k \in 1..(Len(l1) * Len(l2)) : papers_dist(l1, l2)[k][2] = 0

RECURSIVE Pow(_, _)
Pow(b, e) == IF e = 0 THEN 1 ELSE b * Pow(b, e - 1)

RECURSIVE Gcd(_, _)
Gcd(a, b) == IF b = 0 THEN a ELSE Gcd(b, a % b)

RECURSIVE ProdS(_)
ProdS(f) == IF f = <<>> THEN 1 ELSE Head(f)[1] * ProdS(Tail(f))

RECURSIVE ProdT(_)
ProdT(f) == IF f = <<>> THEN 1 ELSE Head(f)[2] * ProdT(Tail(f))

\* geometric mean of the factors a < geometric mean of the factors b, for
\* non-empty a and b without a zero t:
\*   (prod s_a / prod t_a)^(1/2|a|) < (prod s_b / prod t_b)^(1/2|b|)
dist_less(a, b) ==
    IF a = b THEN FALSE
    ELSE LET g == Gcd(Len(a), Len(b))
             ea == Len(b) \div g
             eb == Len(a) \div g
         IN Pow(ProdS(a), ea) * Pow(ProdT(b), eb) < Pow(ProdS(b), eb) * Pow(ProdT(a), ea)

\* the pairs (i, j), i < j, in the order of the loops of lines 273-274
RECURSIVE scan_pairs(_, _, _)
scan_pairs(i, j, n) ==
    IF i > n THEN <<>>
    ELSE IF j > n THEN scan_pairs(i + 1, i + 2, n)
    ELSE <<<<i, j>>>> \o scan_pairs(i, j + 1, n)

\* the scan of lines 272-276 with the update of best left out
scan_first(sp, pairs, best) == best

RECURSIVE scan(_, _, _)
\* lines 272-276: best after the scan, positions counted from 1
scan(sp, pairs, best) ==
    IF pairs = <<>> THEN best
    ELSE LET i == Head(pairs)[1]
             j == Head(pairs)[2]
         IN IF dist_less(papers_dist(sp[i], sp[j]), papers_dist(sp[best[1]], sp[best[2]]))
            THEN scan(sp, Tail(pairs), <<i, j>>)
            ELSE scan(sp, Tail(pairs), best)

\* a scan of lines 272-276 that divides by zero
scan_faults(sp) ==
    \E i \in 1..Len(sp), j \in 1..Len(sp) : i < j /\ dist_faults(sp[i], sp[j])

\* lines 277-280 with the two groups concatenated the other way round
merge_swapped(sp, best) ==
    SubSeq(sp, 1, best[1] - 1) \o <<sp[best[2]] \o sp[best[1]]>>
    \o SubSeq(sp, best[1] + 1, best[2] - 1) \o SubSeq(sp, best[2] + 1, Len(sp))

\* lines 277-280
merge(sp, best) ==
    SubSeq(sp, 1, best[1] - 1) \o <<sp[best[1]] \o sp[best[2]]>>
    \o SubSeq(sp, best[1] + 1, best[2] - 1) \o SubSeq(sp, best[2] + 1, Len(sp))

Members(l) == { l[k] : k \in 1..Len(l) }

\* line 251
singletons(ids) == [k \in 1..Len(ids) |-> <<ids[k]>>]

\* lines 249-251
StartOrder ==
    /\ Running
    /\ stage = "order"
    /\ IF opt_order = 1
       THEN /\ sorted_papers' = singletons(PaperIds)
            /\ sorted_pc' = sorted_pc
            /\ stage' = "merge"
       ELSE /\ sorted_papers' = PaperIds
            /\ sorted_pc' = PcNames
            /\ stage' = "pclist"
    /\ UNCHANGED <<universe, opt_scale, opt_order, fault, out, nrows, tables, assigned,
                   scaling, merges, row, encoding>>

\* lines 271-280, one pass of the while loop
MergeStep ==
    /\ Running
    /\ stage = "merge"
    /\ Len(sorted_papers) > 1
    /\ IF scan_faults(sorted_papers)
       THEN /\ fault' = "ZeroDivisionError"
            /\ UNCHANGED <<sorted_papers, merges>>
       ELSE LET best == scan(sorted_papers, scan_pairs(1, 2, Len(sorted_papers)), <<1, 2>>)
            IN /\ sorted_papers' = merge(sorted_papers, best)
               /\ merges' = Append(merges, {Members(sorted_papers[best[1]]),
                                            Members(sorted_papers[best[2]])})
               /\ fault' = fault
    /\ UNCHANGED <<universe, opt_scale, opt_order, stage, out, nrows, tables, assigned,
                   scaling, sorted_pc, row, encoding>>

-----------------------------------------------------------------------------
(* Ordering the reviewers *)

RECURSIVE affinity_loop(_, _, _, _, _)
\* lines 286-291: s and t after the loop over the positions i, counted from 0
affinity_loop(name, order, i, s, t) ==
    IF i >= Len(order) THEN <<s, t>>
    ELSE LET key == <<order[i + 1], name>>
         IN IF key \in DOMAIN prefs_scaled
            THEN affinity_loop(name, order, i + 1, s + prefs_scaled[key] * i,
                               t + prefs_scaled[key])
            ELSE affinity_loop(name, order, i + 1, s, t)

\* affinity with the sentinel on the wrong side of the positions
affinity_high(name, order) ==
    LET r == affinity_loop(name, order, 0, 0, 0)
    IN IF r[2] > 0 THEN r ELSE <<Len(order), 1>>

\* lines 285-295: the fraction <<s, t>> stands for s / t
affinity(name, order) ==
    LET r == affinity_loop(name, order, 0, 0, 0)
    IN IF r[2] > 0 THEN r ELSE <<NoAffinity, 1>>

\* a < b for fractions with positive denominators
frac_less(a, b) == a[1] * b[2] < b[1] * a[2]

RECURSIVE insert_sorted(_, _, _)
\* name put after every element of the sorted list whose key is not greater
insert_sorted(sorted, name, order) ==
    IF sorted = <<>> THEN <<name>>
    ELSE IF frac_less(affinity(name, order), affinity(Head(sorted), order))
         THEN <<name>> \o sorted
         ELSE <<Head(sorted)>> \o insert_sorted(Tail(sorted), name, order)

RECURSIVE sorted_by_affinity(_, _, _)
\* line 296, sorted(pc, key=affinity): Python's sort is stable
sorted_by_affinity(names, acc, order) ==
    IF names = <<>> THEN acc
    ELSE sorted_by_affinity(Tail(names), insert_sorted(acc, Head(names), order), order)

\* lines 282-296.  With no paper, sorted_papers[0] raises IndexError.
SortPC ==
    /\ Running
    /\ stage = "merge"
    /\ Len(sorted_papers) <= 1
    /\ IF sorted_papers = <<>>
       THEN /\ fault' = "IndexError"
            /\ UNCHANGED <<sorted_papers, sorted_pc, stage>>
       ELSE /\ sorted_papers' = sorted_papers[1]
            /\ sorted_pc' = sorted_by_affinity(PcNames, <<>>, sorted_papers[1])
            /\ stage' = "pclist"
            /\ fault' = fault
    /\ UNCHANGED <<universe, opt_scale, opt_order, out, nrows, tables, assigned,
                   scaling, merges, row, encoding>>

-----------------------------------------------------------------------------
(* Printing *)

\* lines 302-311, without page lengths
PrintPCList ==
    /\ Running
    /\ stage = "pclist"
    /\ out' = Append(out, [kind |-> "pclist",
                           labels |-> [k \in 1..Len(sorted_pc) |->
                                          latex_encode(sorted_pc[k])]])
    /\ stage' = "rows"
    /\ UNCHANGED <<universe, opt_scale, opt_order, fault, nrows, tables, assigned,
                   scaling, ordering, row, encoding>>

Label(tag, raw) == [tag |-> tag, raw |-> raw]

\* a cell \<macro>rate<a>{<shade>}{<label>}
Cell(macro, a, shade, label) ==
    [ok |-> TRUE, macro |-> macro, a |-> a, shade |-> shade, label |-> label]

\* lines 314-322.  The last line reads prefs_scaled[p][name], which raises
\* KeyError when the pair has no scaled score: [ok |-> FALSE].
pretty(p, name) ==
    LET key == <<p, name>>
        a == IF key \in assigned THEN "A" ELSE ""
    IN IF key \notin DOMAIN prefs
       THEN Cell("P", a, UnknownShade, Label("?", <<>>))
       ELSE IF prefs_type[key] = "C"
       THEN Cell("P", a, ConflictScore, Label("C", <<>>))
       ELSE IF prefs[key] = ConflictScore
       THEN Cell("P", a, ConflictScore, Label("", <<ConflictScore>>))
       ELSE IF key \notin DOMAIN prefs_scaled
       THEN [ok |-> FALSE]
       ELSE Cell(prefs_type[key], a, prefs_scaled[key],
                 Label(prefs_type[key], <<prefs[key]>>))

\* the number of cells of the row of p printed before pretty raises, or all
RECURSIVE cells_printed(_, _)
cells_printed(p, k) ==
    IF k > Len(sorted_pc) THEN Len(sorted_pc)
    ELSE IF pretty(p, sorted_pc[k]).ok THEN cells_printed(p, k + 1) ELSE k - 1

\* lines 326-333, the body of the loop over sorted_papers, without page lengths
PrintPaperRow ==
    /\ Running
    /\ stage = "rows"
    /\ row <= Len(sorted_papers)
    /\ LET p == sorted_papers[row]
           title == (CHOOSE r \in { papers[i] : i \in 1..Len(papers) } : r.id = p).title
           n == cells_printed(p, 1)
           cells == [k \in 1..n |-> pretty(p, sorted_pc[k])]
       IN IF n = Len(sorted_pc)
          THEN /\ out' = Append(out, [kind |-> "row", paper |-> p,
                                      title |-> latex_encode(title), cells |-> cells])
               /\ fault' = fault
          ELSE /\ out' = Append(out, [kind |-> "partial row", paper |-> p,
                                      title |-> latex_encode(title), cells |-> cells])
               /\ fault' = "KeyError(name)"
    /\ row' = row + 1
    /\ UNCHANGED <<universe, opt_scale, opt_order, stage, nrows, tables, assigned,
                   scaling, ordering, encoding>>

\* lines 335-338
PrintFooter ==
    /\ Running
    /\ stage = "rows"
    /\ row > Len(sorted_papers)
    /\ out' = Append(out, [kind |-> "footer"])
    /\ stage' = "done"
    /\ UNCHANGED <<universe, opt_scale, opt_order, fault, nrows, tables, assigned,
                   scaling, ordering, row, encoding>>

Next ==
    \/ PrintHeader
    \/ LoadPrefRow
    \/ EndPrefs
    \/ ProcessAssignRow
    \/ EndAssign
    \/ ComputeMinMax
    \/ ScalePrefs
    \/ StartOrder
    \/ MergeStep
    \/ SortPC
    \/ PrintPCList
    \/ PrintPaperRow
    \/ PrintFooter

\* runs over two papers, with and without ordering
Spec == Init /\ [][Next]_vars

\* a run without assignment file: line 211 skips the loop
NextOrder ==
    \/ PrintHeader
    \/ LoadPrefRow
    \/ EndPrefs
    \/ EndAssign
    \/ ComputeMinMax
    \/ ScalePrefs
    \/ StartOrder
    \/ MergeStep
    \/ SortPC
    \/ PrintPCList
    \/ PrintPaperRow
    \/ PrintFooter

\* runs with ordering over three papers, without assignment file
SpecOrder == InitOrder /\ [][NextOrder]_vars

-----------------------------------------------------------------------------
(* latex_encode applied to a text, and to its own result *)

InitEncode ==
    /\ universe = NoUniverse
    /\ opt_scale = 0
    /\ opt_order = 0
    /\ stage = "encode"
    /\ fault = "none"
    /\ out = <<>>
    /\ nrows = 0
    /\ papers = <<>>
    /\ pc = <<>>
    /\ pc_min = <<>>
    /\ pc_max = <<>>
    /\ prefs = <<>>
    /\ prefs_type = <<>>
    /\ assigned = {}
    /\ email = <<>>
    /\ prefs_scaled = <<>>
    /\ sorted_papers = <<>>
    /\ sorted_pc = <<>>
    /\ row = 1
    /\ conflicted = {}
    /\ merges = <<>>
    /\ text \in Texts
    /\ encoded = <<>>
    /\ reencoded = <<>>

Encode ==
    /\ stage = "encode"
    /\ encoded' = latex_encode(text)
    /\ stage' = "reencode"
    /\ UNCHANGED <<universe, opt_scale, opt_order, fault, out, nrows, tables, assigned,
                   scaling, ordering, row, text, reencoded>>

EncodeAgain ==
    /\ stage = "reencode"
    /\ reencoded' = latex_encode(encoded)
    /\ stage' = "encoded"
    /\ UNCHANGED <<universe, opt_scale, opt_order, fault, out, nrows, tables, assigned,
                   scaling, ordering, row, text, encoded>>

NextEncode == Encode \/ EncodeAgain

SpecEncode == InitEncode /\ [][NextEncode]_vars

-----------------------------------------------------------------------------
(* The claims *)

Loaded == stage \notin {"header", "prefs", "encode", "reencode", "encoded"}
Scaled == Running /\ stage \in {"order", "merge", "pclist", "rows", "done"}
Ordered == Running /\ opt_order = 1 /\ stage \in {"pclist", "rows", "done"}

\* C1: when a 'primary' assignment row names an email that is not in the
\* email -> reviewer map, the run aborts with a lookup error and nothing has
\* been written to standard output at that moment.
C1_NoOutputAtLookupAbort ==
    (stage = "assign" /\ fault = "KeyError(email)") => out = <<>>

\* the scores of a reviewer that enter the scaling bounds
ScoresOf(name) ==
    { prefs[key] : key \in { k \in DOMAIN prefs : k[2] = name /\ prefs[k] > ConflictScore } }

MinOf(S) == CHOOSE x \in S : \A y \in S : x <= y
MaxOf(S) == CHOOSE x \in S : \A y \in S : x >= y

\* C2: scaling never faults on degenerate bounds: for a reviewer with
\* min = max, the intensity of each of its non-conflict entries is computed
\* without a division by zero and lies in [0, 100].
C2_ScalingNeverFaults ==
    /\ stage = "scale" => fault = "none"
    /\ Scaled =>
         \A key \in DOMAIN prefs :
            (prefs[key] > ConflictScore /\ pc_min[key[2]] = pc_max[key[2]])
               => key \in DOMAIN prefs_scaled /\ prefs_scaled[key] \in 0..100

\* C3: with ordering enabled and at least two papers, also when two papers
\* share no reviewer with a scaled score, the distance of such a pair is a
\* value, not a fault, and the merge loop ends with exactly one group.
C3_UnsharedPairIsNoFault ==
    (opt_order = 1 /\ Len(papers) >= 2) =>
        /\ stage = "merge" => fault = "none"
        /\ (Scaled /\ stage \in {"pclist", "rows", "done"}) => Len(merges) = Len(papers) - 1

\* C4: if at least one row read for a pair carries the conflict flag, the
\* pair's final tag is 'C' and its raw score is -100, wherever that row stood
\* among the rows of the pair.
C4_ConflictAlwaysWins ==
    Loaded => \A key \in conflicted : prefs_type[key] = "C" /\ prefs[key] = ConflictScore

\* C5: in adaptive mode the bounds of a reviewer are exactly the minimum and
\* the maximum of its non-conflict raw scores, so that with two distinct
\* scores the lowest gets intensity 0 and the highest intensity 100.
C5_AdaptiveBoundsAreMinMax ==
    (opt_scale = 1 /\ Scaled) =>
        \A name \in Names :
            ScoresOf(name) # {} =>
                /\ pc_min[name] = MinOf(ScoresOf(name))
                /\ pc_max[name] = MaxOf(ScoresOf(name))
                /\ Cardinality(ScoresOf(name)) >= 2 =>
                      \A key \in DOMAIN prefs_scaled :
                         key[2] = name =>
                            /\ prefs[key] = MinOf(ScoresOf(name)) => prefs_scaled[key] = 0
                            /\ prefs[key] = MaxOf(ScoresOf(name)) => prefs_scaled[key] = 100

-----------------------------------------------------------------------------
(* C6: the order of the input papers *)

RECURSIVE scan_ties(_, _, _)
\* a scan in which a pair other than best is compared with best and has the
\* same distance
scan_ties(sp, pairs, best) ==
    IF pairs = <<>> THEN FALSE
    ELSE LET a == papers_dist(sp[Head(pairs)[1]], sp[Head(pairs)[2]])
             b == papers_dist(sp[best[1]], sp[best[2]])
         IN IF dist_less(a, b) THEN scan_ties(sp, Tail(pairs), Head(pairs))
            ELSE \/ (Head(pairs) # best /\ ~dist_less(b, a))
                 \/ scan_ties(sp, Tail(pairs), best)

RECURSIVE cluster(_)
\* lines 271-282 as a function of the initial list of groups, when no
\* distance faults: the final order, the merges, and whether a scan met a tie
cluster(sp) ==
    IF Len(sp) <= 1
    THEN [order |-> IF sp = <<>> THEN <<>> ELSE sp[1], merges |-> <<>>, ties |-> FALSE]
    ELSE LET pairs == scan_pairs(1, 2, Len(sp))
             best == scan(sp, pairs, <<1, 2>>)
             rest == cluster(merge(sp, best))
         IN [order |-> rest.order,
             merges |-> <<{Members(sp[best[1]]), Members(sp[best[2]])}>> \o rest.merges,
             ties |-> scan_ties(sp, pairs, <<1, 2>>) \/ rest.ties]

\* the input orders of the loaded papers
InputOrders(ids) ==
    { q \in [1..Len(ids) -> Members(ids)] : \A i, j \in 1..Len(ids) : q[i] = q[j] => i = j }

\* every pair of papers shares a reviewer with a scaled score on both
AllShare == \A p1, p2 \in Ids : paper_dist(p1, p2)[2] > 0

\* the unordered pairs of neighbours of a linear order
Adjacent(order) == { {order[k], order[k + 1]} : k \in 1..(Len(order) - 1) }

\* the paper order has just been computed
OrderingDone == Running /\ opt_order = 1 /\ stage = "pclist"

\* the run that happened is one C6 is about: no fault, no tie among the
\* compared distances
NoTies == AllShare /\ ~cluster(singletons(PaperIds)).ties

\* C6 as stated: without ties, every input order of the papers gives a final
\* order with the same set of adjacent pairs.
C6_SameAdjacencies ==
    (OrderingDone /\ NoTies) =>
        \A q \in InputOrders(PaperIds) :
            LET r == cluster(singletons(q))
            IN ~r.ties => Adjacent(r.order) = Adjacent(sorted_papers)

\* C6 amended: without ties, every input order of the papers gives the same
\* clusters, that is the same sequence of merged pairs of paper sets, and a
\* final order of the same papers; the neighbours in the order may differ.
C6_SameClusters ==
    (OrderingDone /\ NoTies) =>
        \A q \in InputOrders(PaperIds) :
            LET r == cluster(singletons(q))
            IN ~r.ties => /\ r.merges = merges
                          /\ Members(r.order) = Members(sorted_papers)
                          /\ Len(r.order) = Len(sorted_papers)

\* C6 witness: three papers ordered without ties, and an input order that
\* gives other neighbours
C6_Witness ==
    /\ OrderingDone
    /\ NoTies
    /\ Len(papers) = 3
    /\ \E q \in InputOrders(PaperIds) :
          /\ ~cluster(singletons(q)).ties
          /\ Adjacent(cluster(singletons(q)).order) # Adjacent(sorted_papers)

-----------------------------------------------------------------------------
(* C7: the cells *)

-----------------------------------------------------------------------------
(* C8: escaping twice *)

HasReserved(t) == \E k \in 1..Len(t) : t[k] \in Reserved

\* C8 as stated: latex_encode(latex_encode(t)) = latex_encode(t) for every
\* text t, and latex_encode(t) = t for a text without reserved character.
C8_Idempotent ==
    stage = "encoded" =>
        /\ reencoded = encoded
        /\ ~HasReserved(text) => encoded = text

\* C8 amended: latex_encode(t) = t when t has no reserved character, and
\* only then is latex_encode(latex_encode(t)) = latex_encode(t): every escape
\* starts with a backslash, which the second application escapes again.
C8_IdempotentOnCleanTextOnly ==
    stage = "encoded" =>
        /\ ~HasReserved(text) => (encoded = text /\ reencoded = encoded)
        /\ HasReserved(text) => (reencoded # encoded /\ Len(reencoded) > Len(encoded))

\* C8 witness: a text with a reserved and an ordinary character, encoded twice
C8_Witness ==
    /\ stage = "encoded"
    /\ \E i, j \in 1..Len(text) : text[i] = "&" /\ text[j] = "a"
    /\ reencoded # encoded

-----------------------------------------------------------------------------
(* C9: the order of the reviewers *)

RECURSIVE WeightedSum(_, _)
\* sum of intensity * position over the first k papers of the final order
WeightedSum(name, k) ==
    IF k = 0 THEN 0
    ELSE WeightedSum(name, k - 1)
         + (IF <<sorted_papers[k], name>> \in DOMAIN prefs_scaled
            THEN prefs_scaled[<<sorted_papers[k], name>>] * (k - 1) ELSE 0)

RECURSIVE WeightSum(_, _)
\* sum of intensity over the first k papers of the final order
WeightSum(name, k) ==
    IF k = 0 THEN 0
    ELSE WeightSum(name, k - 1)
         + (IF <<sorted_papers[k], name>> \in DOMAIN prefs_scaled
            THEN prefs_scaled[<<sorted_papers[k], name>>] ELSE 0)

HasScaled(name) == \E key \in DOMAIN prefs_scaled : key[2] = name

Quotient(name) ==
    <<WeightedSum(name, Len(sorted_papers)), WeightSum(name, Len(sorted_papers))>>

\* the affinity of C9 as stated: the quotient for a reviewer with a scaled
\* entry, -1 for one without
StatedAffinity(name) == IF HasScaled(name) THEN Quotient(name) ELSE <<NoAffinity, 1>>

\* the affinity of C9 amended: the quotient when the intensities do not sum
\* to zero, -1 otherwise
AmendedAffinity(name) ==
    IF WeightSum(name, Len(sorted_papers)) > 0 THEN Quotient(name) ELSE <<NoAffinity, 1>>

PcIndex(name) == CHOOSE i \in 1..Len(pc) : pc[i].name = name

\* sorted_pc is pc in ascending order of key, a function on the names, equal
\* keys in insertion order
StablySortedBy(key) ==
    /\ Len(sorted_pc) = Len(pc)
    /\ Members(sorted_pc) = Names
    /\ \A i, j \in 1..Len(sorted_pc) :
          i < j =>
             /\ ~frac_less(key[sorted_pc[j]], key[sorted_pc[i]])
             /\ ~frac_less(key[sorted_pc[i]], key[sorted_pc[j]])
                   => PcIndex(sorted_pc[i]) < PcIndex(sorted_pc[j])

\* C9 as stated: the reviewers are sorted ascending and stably by
\* sum(intensity*position)/sum(intensity) over the papers with a scaled entry,
\* a quotient that is defined for every reviewer with a scaled entry, and by
\* -1 for a reviewer without a scaled entry.
C9_SortedByStatedAffinity ==
    Ordered =>
        /\ \A name \in Names : HasScaled(name) => StatedAffinity(name)[2] > 0
        /\ StablySortedBy([name \in Names |-> StatedAffinity(name)])

\* C9 amended: the sentinel -1 is the affinity of every reviewer whose
\* intensities sum to zero, with or without scaled entries; the reviewers are
\* sorted ascending and stably by that affinity, and no run faults in the sort.
C9_SortedByAffinity ==
    /\ Ordered => StablySortedBy([name \in Names |-> AmendedAffinity(name)])
    /\ (stage = "merge" /\ Len(sorted_papers) = 1) => fault = "none"

\* C9 witness: two reviewers with the sentinel, the first with scaled entries that are
\* all zero, the second without scaled entry, in insertion order
C9_Witness ==
    /\ Ordered
    /\ Len(sorted_pc) = 2
    /\ HasScaled(sorted_pc[1])
    /\ WeightSum(sorted_pc[1], Len(sorted_papers)) = 0
    /\ ~HasScaled(sorted_pc[2])
    /\ sorted_pc = PcNames

-----------------------------------------------------------------------------
(* C10: the merge loop *)

\* the groups are non-empty and hold every loaded paper exactly once
GroupsPartitionPapers ==
    (stage = "merge") =>
        /\ \A g \in 1..Len(sorted_papers) : sorted_papers[g] # <<>>
        /\ \A p \in Ids :
              Cardinality({ <<g, k>> \in (1..Len(sorted_papers)) \X (1..Len(papers)) :
                              k <= Len(sorted_papers[g]) /\ sorted_papers[g][k] = p }) = 1
        /\ \A g \in 1..Len(sorted_papers) : Members(sorted_papers[g]) \subseteq Ids

\* the final order is a permutation of the papers
FinalOrderIsPermutation ==
    Ordered =>
        /\ Len(sorted_papers) = Len(papers)
        /\ Members(sorted_papers) = Ids

\* a step of the loop that changes the list merges the chosen pair i < j
\* in place
MergesInPlace ==
    (stage = "merge" /\ stage' = "merge" /\ sorted_papers' # sorted_papers) =>
        \E i, j \in 1..Len(sorted_papers) :
            /\ i < j
            /\ merges' = Append(merges, {Members(sorted_papers[i]), Members(sorted_papers[j])})
            /\ Len(sorted_papers') = Len(sorted_papers) - 1
            /\ \A k \in 1..Len(sorted_papers') :
                  sorted_papers'[k] =
                     IF k = i THEN sorted_papers[i] \o sorted_papers[j]
                     ELSE IF k < j THEN sorted_papers[k]
                     ELSE sorted_papers[k + 1]

\* C10: after any number of merge steps the working list consists of
\* non-empty groups holding every loaded paper exactly once; each step puts
\* left ++ right at the left position, removes the right group, leaves the
\* other groups as they are and in their order, and lowers the number of
\* groups by one; the final order is a permutation of the papers.
C10_MergeLoopInvariant ==
    /\ [](GroupsPartitionPapers /\ FinalOrderIsPermutation)
    /\ [][MergesInPlace]_vars

\* C10 witness: a merge of the second and third of three groups has happened
C10_Witness ==
    /\ stage = "merge"
    /\ Running
    /\ Len(sorted_papers) = 2
    /\ Len(sorted_papers[2]) = 2

=============================================================================
